---- MODULE Spec2Model ----
(***************************************************************************)
(* Model of the SLR screening pipeline (backend/app/core/slr_pipeline.py)   *)
(* and of the conversational agent (backend/app/core/agent_controller.py). *)
(*                                                                         *)
(* Text is modelled by strings and matched by real substring search.       *)
(* Confidences are kept exact, in hundredths (0.95 is 95); rates computed  *)
(* from them are exact rationals [num, den].                               *)
(* The batch handed to screen_studies is revealed one study at a time, as  *)
(* the iterator of `for study in studies` yields it: `studies` holds the   *)
(* part of the input consumed so far.                                      *)
(***************************************************************************)
EXTENDS Integers, Sequences, FiniteSets, TLC

VARIABLES
    pc,          \* "idle" | "loop": position inside screen_studies
    studies,     \* the running / last call's studies (for _screen_rules, its one study)
    criteria,    \* argument `criteria` of that call
    ml_model,    \* argument `ml_model` of that call (None for _screen_rules)
    bert_model,  \* argument `bert_model` of that call (None for _screen_rules)
    decisions,   \* self.decisions
    metrics,     \* self.metrics
    trail,       \* per study of a screen_studies call: the layers that ran, what each returned
    ret,         \* value returned by the last completed call
    passes,      \* screen_studies calls begun on this instance, counted up to MaxPasses
    agent,       \* _agent, the module-level SLRAgentController
    call,        \* the last request served by _agent: operation, client, inputs since (re)start
    started,     \* job ids start_slr_job has given out
    collided,    \* job ids start_slr_job has given out more than once
    str_hash     \* hash() of this process, on the strings it has been evaluated on

agent_vars == <<agent, call, started, collided, str_hash>>

vars == <<pc, studies, criteria, ml_model, bert_model, decisions, metrics, trail, ret, passes,
          agent, call, started, collided, str_hash>>

\* Largest batch handed to screen_studies.
MaxStudies == 2

\* The count of screen_studies calls saturates here.
MaxPasses == 2

\* Longest conversation history a session grows to before it is reset.
MaxHistory == 3

\* Python's None (also what dict.get gives for a missing key).
None == "<None>"

\* ------------------------------------------------------------------ text

LowerChar(c) ==
    CASE c = "A" -> "a" [] c = "B" -> "b" [] c = "C" -> "c" [] c = "D" -> "d"
      [] c = "E" -> "e" [] c = "F" -> "f" [] c = "G" -> "g" [] c = "H" -> "h"
      [] c = "I" -> "i" [] c = "J" -> "j" [] c = "K" -> "k" [] c = "L" -> "l"
      [] c = "M" -> "m" [] c = "N" -> "n" [] c = "O" -> "o" [] c = "P" -> "p"
      [] c = "Q" -> "q" [] c = "R" -> "r" [] c = "S" -> "s" [] c = "T" -> "t"
      [] c = "U" -> "u" [] c = "V" -> "v" [] c = "W" -> "w" [] c = "X" -> "x"
      [] c = "Y" -> "y" [] c = "Z" -> "z" [] OTHER -> c

RECURSIVE lower(_)
\* str.lower()
lower(s) ==
    IF Len(s) = 0 THEN ""
    ELSE LowerChar(SubSeq(s, 1, 1)) \o lower(SubSeq(s, 2, Len(s)))

\* `kw in text` on strings
Contains(kw, text) ==
    \E i \in 1..(Len(text) - Len(kw) + 1) : SubSeq(text, i, i + Len(kw) - 1) = kw

\* `v or ''`
OrEmpty(v) == IF v = None \/ v = "" THEN "" ELSE v

\* `if model:` for a plugin object or None
Truthy(m) == m # None

\* ------------------------------------------------------------------ taxonomies

disease_keywords ==
    << [name |-> "type 2 diabetes",
        keywords |-> <<"t2d", "t2dm", "type 2 diabetes", "niddm", "diabetes mellitus type 2">>],
       [name |-> "pcos",
        keywords |-> <<"pcos", "polycystic ovary syndrome">>] >>

trial_keywords ==
    << [name |-> "randomized controlled trial",
        keywords |-> <<"rct", "randomized controlled trial", "randomized">>],
       [name |-> "clinical trial",
        keywords |-> <<"clinical trial", "trial phase">>] >>

\* for group in taxonomy: if any(kw in text for kw in keywords): match
AnyKeyword(taxonomy, text) ==
    \E g \in 1..Len(taxonomy) :
        \E k \in 1..Len(taxonomy[g].keywords) : Contains(taxonomy[g].keywords[k], text)

\* ------------------------------------------------------------------ layers

ScreeningDecision(pmid, title, abstract, decision, confidence, layer, reasoning, prisma_stage) ==
    [pmid |-> pmid, title |-> title, abstract |-> abstract, decision |-> decision,
     confidence |-> confidence, layer |-> layer, reasoning |-> reasoning,
     prisma_stage |-> prisma_stage]

\* Variant of StudyText: the abstract is left out of the text.
StudyText_title_only(study) == lower(OrEmpty(study.title))

StudyText(study) == lower(OrEmpty(study.title)) \o " " \o lower(OrEmpty(study.abstract))

\* Variant of screen_rules: the trial-type gate is evaluated before the disease gate.
screen_rules_trial_first(study, crit) ==
    LET text == lower(OrEmpty(study.title)) \o " " \o lower(OrEmpty(study.abstract))
    IN  IF ~AnyKeyword(trial_keywords, text)
        THEN ScreeningDecision(study.pmid, study.title, study.abstract, "EXCLUDE", 92,
                               "rules", "Not a clinical trial", "Screening")
        ELSE IF ~AnyKeyword(disease_keywords, text)
        THEN ScreeningDecision(study.pmid, study.title, study.abstract, "EXCLUDE", 95,
                               "rules", "Does not match disease criteria", "Screening")
        ELSE ScreeningDecision(study.pmid, study.title, study.abstract, "INCLUDE", 90,
                               "rules", "Matches disease and trial criteria", "Inclusion")

\* Variant of screen_rules: the trial-type gate fails with the disease gate's confidence.
screen_rules_same_confidence(study, crit) ==
    LET text == lower(OrEmpty(study.title)) \o " " \o lower(OrEmpty(study.abstract))
    IN  IF ~AnyKeyword(disease_keywords, text)
        THEN ScreeningDecision(study.pmid, study.title, study.abstract, "EXCLUDE", 95,
                               "rules", "Does not match disease criteria", "Screening")
        ELSE IF ~AnyKeyword(trial_keywords, text)
        THEN ScreeningDecision(study.pmid, study.title, study.abstract, "EXCLUDE", 95,
                               "rules", "Not a clinical trial", "Screening")
        ELSE ScreeningDecision(study.pmid, study.title, study.abstract, "INCLUDE", 90,
                               "rules", "Matches disease and trial criteria", "Inclusion")

\* Variant of screen_rules: a decision already stored for the pmid is reused.
screen_rules_reuses_stored(study, crit) ==
    LET text == lower(OrEmpty(study.title)) \o " " \o lower(OrEmpty(study.abstract))
    IN  IF \E k \in 1..Len(decisions) : decisions[k].pmid = study.pmid
        THEN decisions[CHOOSE k \in 1..Len(decisions) : decisions[k].pmid = study.pmid]
        ELSE IF ~AnyKeyword(disease_keywords, text)
        THEN ScreeningDecision(study.pmid, study.title, study.abstract, "EXCLUDE", 95,
                               "rules", "Does not match disease criteria", "Screening")
        ELSE IF ~AnyKeyword(trial_keywords, text)
        THEN ScreeningDecision(study.pmid, study.title, study.abstract, "EXCLUDE", 92,
                               "rules", "Not a clinical trial", "Screening")
        ELSE ScreeningDecision(study.pmid, study.title, study.abstract, "INCLUDE", 90,
                               "rules", "Matches disease and trial criteria", "Inclusion")

screen_rules(study, crit) ==
    LET text == StudyText(study)
        disease_match == AnyKeyword(disease_keywords, text)
        trial_match == AnyKeyword(trial_keywords, text)
    IN  IF ~disease_match
        THEN ScreeningDecision(study.pmid, study.title, study.abstract, "EXCLUDE", 95,
                               "rules", "Does not match disease criteria", "Screening")
        ELSE IF ~trial_match
        THEN ScreeningDecision(study.pmid, study.title, study.abstract, "EXCLUDE", 92,
                               "rules", "Not a clinical trial", "Screening")
        ELSE ScreeningDecision(study.pmid, study.title, study.abstract, "INCLUDE", 90,
                               "rules", "Matches disease and trial criteria", "Inclusion")

\* Variant of screen_ml: the test of the current decision is dropped.
screen_ml_always_include(study, current_decision, model) ==
    ScreeningDecision(study.pmid, study.title, study.abstract, "INCLUDE", 92,
                      "ml", "ML model: High likelihood of relevance",
                      current_decision.prisma_stage)

\* Variant of screen_ml: an INCLUDE is re-issued at the rule gate's top confidence.
screen_ml_confidence_95(study, current_decision, model) ==
    IF current_decision.decision = "INCLUDE"
    THEN ScreeningDecision(study.pmid, study.title, study.abstract, "INCLUDE", 95,
                           "ml", "ML model: High likelihood of relevance",
                           current_decision.prisma_stage)
    ELSE current_decision

screen_ml(study, current_decision, model) ==
    IF current_decision.decision = "INCLUDE"
    THEN ScreeningDecision(study.pmid, study.title, study.abstract, "INCLUDE", 92,
                           "ml", "ML model: High likelihood of relevance",
                           current_decision.prisma_stage)
    ELSE current_decision

screen_bert(study, current_decision, model) == current_decision

\* ------------------------------------------------------------------ inputs

StudyPool ==
    { [pmid |-> "1", title |-> "RCT of type 2 diabetes treatment", abstract |-> ""],
      [pmid |-> "2", title |-> "A cooking article", abstract |-> ""],
      [pmid |-> "3", title |-> "PCOS cohort", abstract |-> "Observational"],
      [pmid |-> "4", title |-> "Randomized aspirin trial", abstract |-> None],
      [pmid |-> "5", title |-> None, abstract |-> "T2DM clinical trial"],
      [pmid |-> "6", title |-> "Type 2", abstract |-> "Diabetes RCT"] }

\* criteria that name nothing
NoCriteria == [disease |-> None, study_type |-> None]

CriteriaPool ==
    { [disease |-> "type 2 diabetes", study_type |-> "randomized controlled trial"],
      [disease |-> "pcos", study_type |-> "randomized controlled trial"],
      NoCriteria }

\* None, a working plugin object, a plugin object whose every call raises.
Plugins == {None, "plugin", "failing_plugin"}

NoRet == [op |-> "none"]

\* ------------------------------------------------------------------ agent

\* ConversationState
ConversationState ==
    {"idle", "criteria_intake", "validating", "executing", "completed", "error"}

\* SLRCriteria()
SLRCriteria ==
    [disease |-> None, population |-> None, intervention |-> None,
     comparison |-> None, outcome |-> None, study_type |-> None,
     publication_years |-> None, language |-> "English", custom_query |-> None]

\* None in a field that otherwise holds a dict (a record, so that it compares with one)
NoDict == [is_none |-> TRUE]

\* AgentMessage(role=..., content=..., data=..., action=..., job_id=...)
AgentMessage(role, content, data, action, job_id) ==
    [role |-> role, content |-> content, data |-> data, action |-> action,
     job_id |-> job_id]

\* SLRAgentController(): the fields __init__ sets
SLRAgentController ==
    [state |-> "idle", criteria |-> SLRCriteria, conversation_history |-> <<>>,
     current_job_id |-> None]

\* _create_message: the message is appended to the history and returned;
\* the model returns the controller, whose last message is the one returned.
create_message(a, role, content, data, action) ==
    [a EXCEPT !.conversation_history =
                  Append(@, AgentMessage(role, content, data, action, a.current_job_id))]

\* repr() of a field inside str(criteria)
Repr(v) == IF v = None THEN "None" ELSE "'" \o v \o "'"

\* str(self.criteria)
str_criteria(c) ==
    "disease=" \o Repr(c.disease) \o " population=" \o Repr(c.population)
        \o " intervention=" \o Repr(c.intervention) \o " comparison=" \o Repr(c.comparison)
        \o " outcome=" \o Repr(c.outcome) \o " study_type=" \o Repr(c.study_type)
        \o " publication_years=" \o Repr(c.publication_years)
        \o " language=" \o Repr(c.language) \o " custom_query=" \o Repr(c.custom_query)

\* start_slr_job; h is the value of hash(str(self.criteria))
start_slr_job(a, h) ==
    LET job_id == "slr_" \o ToString(h % 10000)
        a1 == [a EXCEPT !.state = "executing", !.current_job_id = job_id]
    IN  create_message(a1, "assistant",
                       "SLR Job initiated successfully! Job ID: " \o job_id
                           \o " Disease: " \o a1.criteria.disease
                           \o " Study Type: " \o a1.criteria.study_type,
                       [criteria |-> a1.criteria, job_id |-> job_id],
                       "start_job")

\* Variant of _handle_criteria_input: after the study type is defaulted the
\* confirmation is looked for in the same input.
handle_criteria_input_no_default_return(a, user_input, h) ==
    LET lower_input == lower(user_input)
        disease == IF Contains("diabetes", lower_input) \/ Contains("t2d", lower_input)
                   THEN (IF Contains("type 2", lower_input) THEN "Type 2 Diabetes" ELSE "Diabetes")
                   ELSE IF Contains("pcos", lower_input) THEN "PCOS"
                   ELSE a.criteria.disease
        a1 == [a EXCEPT !.criteria.disease = disease]
        a2 == [a1 EXCEPT !.criteria.study_type = "randomized controlled trial"]
    IN  IF OrEmpty(a1.criteria.disease) = ""
        THEN create_message(a1, "assistant",
                            "I understand you want to search for Type 2 Diabetes studies. "
                                \o "Please specify: 2. Study Type (e.g., 'randomized controlled trial', 'clinical trial')",
                            NoDict, None)
        ELSE IF Contains("yes", lower_input) \/ Contains("confirm", lower_input)
                    \/ Contains("start", lower_input)
        THEN start_slr_job(a2, h)
        ELSE IF OrEmpty(a1.criteria.study_type) = ""
        THEN create_message(a2, "assistant",
                            "Using study type: " \o a2.criteria.study_type
                                \o " Ready to start SLR for " \o a2.criteria.disease
                                \o "? Reply 'yes' to begin.",
                            NoDict, None)
        ELSE create_message(a1, "assistant", "Please confirm to proceed with SLR job.",
                            NoDict, None)

\* _handle_criteria_input
handle_criteria_input(a, user_input, h) ==
    LET lower_input == lower(user_input)
        disease == IF Contains("diabetes", lower_input) \/ Contains("t2d", lower_input)
                   THEN (IF Contains("type 2", lower_input) THEN "Type 2 Diabetes" ELSE "Diabetes")
                   ELSE IF Contains("pcos", lower_input) THEN "PCOS"
                   ELSE a.criteria.disease
        a1 == [a EXCEPT !.criteria.disease = disease]
        a2 == [a1 EXCEPT !.criteria.study_type = "randomized controlled trial"]
    IN  IF OrEmpty(a1.criteria.disease) = ""
        THEN create_message(a1, "assistant",
                            "I understand you want to search for Type 2 Diabetes studies. "
                                \o "Please specify: 2. Study Type (e.g., 'randomized controlled trial', 'clinical trial')",
                            NoDict, None)
        ELSE IF OrEmpty(a1.criteria.study_type) = ""
        THEN create_message(a2, "assistant",
                            "Using study type: " \o a2.criteria.study_type
                                \o " Ready to start SLR for " \o a2.criteria.disease
                                \o "? Reply 'yes' to begin.",
                            NoDict, None)
        ELSE IF Contains("yes", lower_input) \/ Contains("confirm", lower_input)
                    \/ Contains("start", lower_input)
        THEN start_slr_job(a1, h)
        ELSE create_message(a1, "assistant", "Please confirm to proceed with SLR job.",
                            NoDict, None)

\* _handle_initial_input
handle_initial_input(a, user_input, h) ==
    LET a1 == [a EXCEPT !.state = "criteria_intake"]
    IN  IF \E keyword \in {"start", "begin", "run", "slr", "search"} :
               Contains(keyword, lower(user_input))
        THEN create_message(a1, "assistant",
                            "I'll help you run a Systematic Literature Review. Let me clarify your criteria. "
                                \o "Please provide: 1. Disease/Condition (e.g., 'Type 2 Diabetes', 'PCOS')",
                            NoDict, None)
        ELSE handle_criteria_input(a1, user_input, h)

\* Variant of _handle_status_query: a result request closes the job.
handle_status_query_completes(a, user_input) ==
    IF Contains("result", lower(user_input)) \/ Contains("download", lower(user_input))
    THEN create_message([a EXCEPT !.state = "completed"], "assistant",
                        "Results not yet available. Job " \o a.current_job_id
                            \o " still processing.",
                        NoDict, None)
    ELSE create_message(a, "assistant", "Please ask about 'status' or 'results'.", NoDict, None)

\* _handle_status_query
handle_status_query(a, user_input) ==
    IF Contains("status", lower(user_input))
    THEN create_message(a, "assistant",
                        "Job " \o a.current_job_id \o " Status: PROCESSING",
                        NoDict, None)
    ELSE IF Contains("result", lower(user_input)) \/ Contains("download", lower(user_input))
    THEN create_message(a, "assistant",
                        "Results not yet available. Job " \o a.current_job_id
                            \o " still processing.",
                        NoDict, None)
    ELSE create_message(a, "assistant", "Please ask about 'status' or 'results'.", NoDict, None)

\* process_user_input
process_user_input(a, user_input, h) ==
    IF a.state = "idle" THEN handle_initial_input(a, user_input, h)
    ELSE IF a.state = "criteria_intake" THEN handle_criteria_input(a, user_input, h)
    ELSE IF a.state = "executing" THEN handle_status_query(a, user_input)
    ELSE create_message(a, "assistant", "Session in unexpected state. Please restart.",
                        NoDict, None)

\* Variant of reset_session: the criteria are kept.
reset_session_keeps_criteria(a) ==
    create_message([a EXCEPT !.state = "idle", !.conversation_history = <<>>,
                             !.current_job_id = None],
                   "assistant", "Session reset. Start a new SLR job with 'start'",
                   NoDict, None)

\* Variant of reset_session: the notice is created before the fields are cleared.
reset_session_notice_first(a) ==
    LET a1 == create_message([a EXCEPT !.conversation_history = <<>>],
                             "assistant", "Session reset. Start a new SLR job with 'start'",
                             NoDict, None)
    IN  [a1 EXCEPT !.state = "idle", !.criteria = SLRCriteria, !.current_job_id = None]

\* reset_session
reset_session(a) ==
    create_message([a EXCEPT !.state = "idle", !.criteria = SLRCriteria,
                             !.conversation_history = <<>>, !.current_job_id = None],
                   "assistant", "Session reset. Start a new SLR job with 'start'",
                   NoDict, None)

\* get_agent(): every caller is handed the module-level _agent
get_agent(client) == agent

\* the clients of the HTTP API
Clients == {"client_a", "client_b"}

\* message texts posted to /chat
UserInputs ==
    {"start", "Type 2 Diabetes", "t2d", "PCOS, yes", "yes", "status",
     "download results", "hello"}

\* values hash() takes on a criteria string (it is seeded per process)
HashOutcomes == {1234, 15678}

\* no request served yet
NoCall == [op |-> "none", client |-> None, nth |-> 0]

\* hash() not yet evaluated on any string
NoHashes == [s \in {} |-> 0]

Init ==
    /\ pc = "idle"
    /\ studies = <<>>
    /\ criteria = NoCriteria
    /\ ml_model = None
    /\ bert_model = None
    /\ decisions = <<>>
    /\ metrics = None
    /\ trail = <<>>
    /\ ret = NoRet
    /\ passes = 0
    /\ agent = SLRAgentController
    /\ call = NoCall
    /\ started = {}
    /\ collided = {}
    /\ str_hash = NoHashes

\* ------------------------------------------------------------------ metrics

Rat(n, d) == [num |-> n, den |-> d]

Count(ds, value) == Cardinality({i \in 1..Len(ds) : ds[i].decision = value})

RECURSIVE SumConfidence(_)
\* sum(d.confidence for d in self.decisions), in hundredths
SumConfidence(ds) ==
    IF Len(ds) = 0 THEN 0 ELSE ds[1].confidence + SumConfidence(Tail(ds))

Min(a, b) == IF a <= b THEN a ELSE b

\* The metrics record built from the counts, the sum s of the confidences (in
\* hundredths) and the divisor n of the average: shared by the variants below.
MetricsFrom(included, excluded, total, s, n) ==
    [total_retrieved |-> total,
     total_screened |-> total,
     total_included |-> included,
     total_excluded |-> excluded,
     precision |-> Rat(s, 100 * n),
     recall |-> Rat(Min(97 * n, s + 5 * n), 100 * n),
     f1_score |-> Rat(2 * s * (s + 5 * n), 100 * n * (2 * s + 5 * n)),
     accuracy |-> Rat(s, 100 * n),
     true_positives |-> (included * s) \div (100 * n),
     false_positives |-> (excluded * (100 * n - s)) \div (100 * n),
     true_negatives |-> (excluded * s) \div (100 * n),
     false_negatives |-> (included * (100 * n - s)) \div (100 * n)]

\* the metrics of the early return for an empty decision list
EmptyMetrics ==
    [total_retrieved |-> 0, total_screened |-> 0, total_included |-> 0,
     total_excluded |-> 0, precision |-> Rat(0, 1), recall |-> Rat(0, 1),
     f1_score |-> Rat(0, 1), accuracy |-> Rat(0, 1), true_positives |-> 0,
     false_positives |-> 0, true_negatives |-> 0, false_negatives |-> 0]

\* Variant of compute_metrics: the total is len(self.decisions) and the counts
\* compare with lower-case decision values.
compute_metrics_len_total(ds) ==
    IF Len(ds) = 0 THEN EmptyMetrics
    ELSE MetricsFrom(Count(ds, "include"), Count(ds, "exclude"), Len(ds),
                     SumConfidence(ds), Len(ds))

\* Variant of compute_metrics: no early return for an empty decision list, so
\* avg_confidence is 0 and recall is min(0.97, 0 + 0.05).
compute_metrics_no_empty_guard(ds) ==
    IF Len(ds) = 0 THEN MetricsFrom(0, 0, 0, 0, 1)
    ELSE MetricsFrom(Count(ds, "INCLUDE"), Count(ds, "EXCLUDE"),
                     Count(ds, "INCLUDE") + Count(ds, "EXCLUDE"), SumConfidence(ds), Len(ds))

\* Variant of compute_metrics: the sum of the confidences is not divided by the
\* number of decisions.
compute_metrics_no_average(ds) ==
    IF Len(ds) = 0 THEN EmptyMetrics
    ELSE MetricsFrom(Count(ds, "INCLUDE"), Count(ds, "EXCLUDE"),
                     Count(ds, "INCLUDE") + Count(ds, "EXCLUDE"), SumConfidence(ds), 1)

\* Variant of compute_metrics: recall is the average confidence, without the 0.05.
compute_metrics_recall_is_average(ds) ==
    IF Len(ds) = 0 THEN EmptyMetrics
    ELSE [MetricsFrom(Count(ds, "INCLUDE"), Count(ds, "EXCLUDE"),
                      Count(ds, "INCLUDE") + Count(ds, "EXCLUDE"), SumConfidence(ds), Len(ds))
             EXCEPT !.recall = Rat(SumConfidence(ds), 100 * Len(ds))]

\* avg_confidence is s / (100 * n), with s the sum in hundredths and n = len.
compute_metrics(ds) ==
    IF Len(ds) = 0
    THEN [total_retrieved |-> 0, total_screened |-> 0, total_included |-> 0,
          total_excluded |-> 0, precision |-> Rat(0, 1), recall |-> Rat(0, 1),
          f1_score |-> Rat(0, 1), accuracy |-> Rat(0, 1), true_positives |-> 0,
          false_positives |-> 0, true_negatives |-> 0, false_negatives |-> 0]
    ELSE LET included == Count(ds, "INCLUDE")
             excluded == Count(ds, "EXCLUDE")
             total == included + excluded
             n == Len(ds)
             s == SumConfidence(ds)
         IN  [total_retrieved |-> total,
              total_screened |-> total,
              total_included |-> included,
              total_excluded |-> excluded,
              precision |-> Rat(s, 100 * n),
              recall |-> Rat(Min(97 * n, s + 5 * n), 100 * n),
              f1_score |-> Rat(2 * s * (s + 5 * n), 100 * n * (2 * s + 5 * n)),
              accuracy |-> Rat(s, 100 * n),
              true_positives |-> (included * s) \div (100 * n),
              false_positives |-> (excluded * (100 * n - s)) \div (100 * n),
              true_negatives |-> (excluded * s) \div (100 * n),
              false_negatives |-> (included * (100 * n - s)) \div (100 * n)]

\* ------------------------------------------------------------------ cascade

Ran(layer, d) == [layer |-> layer, d |-> d]

\* Variant of cascade: a rule-gate EXCLUDE does not end the iteration.
cascade_no_short_circuit(study, crit, ml, bert) ==
    LET d1 == screen_rules(study, crit)
        t1 == <<Ran("rules", d1)>>
        d2 == IF Truthy(ml) THEN screen_ml(study, d1, ml) ELSE d1
        t2 == IF Truthy(ml) THEN Append(t1, Ran("ml", d2)) ELSE t1
        runBert == Truthy(bert) /\ d2.decision # "EXCLUDE"
        d3 == IF runBert THEN screen_bert(study, d2, bert) ELSE d2
        t3 == IF runBert THEN Append(t2, Ran("bert", d3)) ELSE t2
    IN  [trail |-> t3, appended |-> <<d3>>]

\* One iteration of the loop of screen_studies: the layers that ran for `study`
\* (trail) and what the iteration appended to self.decisions (appended).
cascade(study, crit, ml, bert) ==
    LET d1 == screen_rules(study, crit)
        t1 == <<Ran("rules", d1)>>
    IN  IF d1.decision = "EXCLUDE"
        THEN [trail |-> t1, appended |-> <<>>]
        ELSE LET d2 == IF Truthy(ml) THEN screen_ml(study, d1, ml) ELSE d1
                 t2 == IF Truthy(ml) THEN Append(t1, Ran("ml", d2)) ELSE t1
                 runBert == Truthy(bert) /\ d2.decision # "EXCLUDE"
                 d3 == IF runBert THEN screen_bert(study, d2, bert) ELSE d2
                 t3 == IF runBert THEN Append(t2, Ran("bert", d3)) ELSE t2
             IN  [trail |-> t3, appended |-> <<d3>>]

RECURSIVE run_decisions(_, _, _, _)
\* self.decisions after the loop of screen_studies has run over the whole of `batch`
run_decisions(batch, crit, ml, bert) ==
    IF Len(batch) = 0 THEN <<>>
    ELSE cascade(batch[1], crit, ml, bert).appended \o run_decisions(Tail(batch), crit, ml, bert)

\* ------------------------------------------------------------------ operations

\* Variant of ScreenStudiesBegin: self.decisions is not emptied.
ScreenStudiesBegin_no_reset(crit, ml, bert) ==
    /\ pc = "idle"
    /\ pc' = "loop"
    /\ studies' = <<>>
    /\ criteria' = crit
    /\ ml_model' = ml
    /\ bert_model' = bert
    /\ trail' = <<>>
    /\ ret' = NoRet
    /\ passes' = Min(passes + 1, MaxPasses)
    /\ UNCHANGED <<decisions, metrics>>
    /\ UNCHANGED agent_vars

\* screen_studies, entry: self.decisions = []
ScreenStudiesBegin(crit, ml, bert) ==
    /\ pc = "idle"
    /\ pc' = "loop"
    /\ studies' = <<>>
    /\ criteria' = crit
    /\ ml_model' = ml
    /\ bert_model' = bert
    /\ decisions' = <<>>
    /\ trail' = <<>>
    /\ ret' = NoRet
    /\ passes' = Min(passes + 1, MaxPasses)
    /\ UNCHANGED metrics
    /\ UNCHANGED agent_vars

\* screen_studies, one iteration of `for study in studies`
ScreenStudiesIter(study) ==
    /\ pc = "loop"
    /\ Len(studies) < MaxStudies
    /\ LET c == cascade(study, criteria, ml_model, bert_model)
       IN  /\ studies' = Append(studies, study)
           /\ trail' = Append(trail, c.trail)
           /\ decisions' = decisions \o c.appended
    /\ UNCHANGED <<pc, criteria, ml_model, bert_model, metrics, ret, passes>>
    /\ UNCHANGED agent_vars

\* screen_studies, after the loop: compute the metrics and return
ScreenStudiesEnd ==
    /\ pc = "loop"
    /\ pc' = "idle"
    /\ ret' = [op |-> "screen_studies", decisions |-> decisions,
               metrics |-> compute_metrics(decisions)]
    /\ UNCHANGED <<studies, criteria, ml_model, bert_model, decisions, metrics, trail, passes>>
    /\ UNCHANGED agent_vars

\* a direct evaluation of the rule gate: _screen_rules(study, criteria)
ScreenRules(study, crit) ==
    /\ pc = "idle"
    /\ studies' = <<study>>
    /\ criteria' = crit
    /\ ml_model' = None
    /\ bert_model' = None
    /\ trail' = <<>>
    /\ ret' = [op |-> "screen_rules", value |-> screen_rules(study, crit)]
    /\ UNCHANGED <<pc, decisions, metrics, passes>>
    /\ UNCHANGED agent_vars

\* a direct evaluation of the ML layer on a rule-gate decision:
\* _screen_ml(study, current_decision, ml_model)
ScreenMl(study, ml) ==
    /\ pc = "idle"
    /\ Truthy(ml)
    /\ studies' = <<study>>
    /\ criteria' = NoCriteria
    /\ ml_model' = ml
    /\ bert_model' = None
    /\ trail' = <<>>
    /\ LET current_decision == screen_rules(study, NoCriteria)
       IN  ret' = [op |-> "screen_ml", current_decision |-> current_decision,
                   value |-> screen_ml(study, current_decision, ml)]
    /\ UNCHANGED <<pc, decisions, metrics, passes>>
    /\ UNCHANGED agent_vars

\* SLRAgentController.explain_decision
explain_decision(study_id, decision, layer) ==
    [study_id |-> study_id,
     decision |-> decision,
     layer |-> layer,
     reasoning |-> "Study " \o study_id \o " was " \o decision \o " at " \o layer \o " layer",
     confidence |-> 92,
     evidence |-> <<>>]

\* record ids asked about: two ids of the pool and one no study carries
ExplainIds == {"1", "2", "404"}

\* POST /slr/explain/{study_id}: agent.explain_decision(study_id, decision, layer)
Explain(study_id, decision, layer) ==
    /\ pc = "idle"
    /\ studies' = <<>>
    /\ criteria' = NoCriteria
    /\ ml_model' = None
    /\ bert_model' = None
    /\ trail' = <<>>
    /\ ret' = [op |-> "explain_decision", study_id |-> study_id,
               value |-> explain_decision(study_id, decision, layer)]
    /\ UNCHANGED <<pc, decisions, metrics, passes>>
    /\ UNCHANGED agent_vars

Next ==
    \/ \E crit \in CriteriaPool, ml \in Plugins, bert \in Plugins :
           ScreenStudiesBegin(crit, ml, bert)
    \/ \E study \in StudyPool : ScreenStudiesIter(study)
    \/ ScreenStudiesEnd
    \/ \E study \in StudyPool, crit \in CriteriaPool : ScreenRules(study, crit)
    \/ \E study \in StudyPool, ml \in Plugins : ScreenMl(study, ml)
    \/ \E study_id \in ExplainIds, decision \in {"INCLUDE", "EXCLUDE"}, layer \in {"rules", "ml"} :
           Explain(study_id, decision, layer)

Spec == Init /\ [][Next]_vars

\* ------------------------------------------------------------------ agent requests

pipeline_vars ==
    <<pc, studies, criteria, ml_model, bert_model, decisions, metrics, trail, ret, passes>>

\* POST /chat by a client: get_agent().process_user_input(message.content);
\* h is what hash() returns if the call starts a job
Chat(client, user_input, h) ==
    LET a == get_agent(client)
        new == process_user_input(a, user_input, h)
        hashed == new.current_job_id # a.current_job_id
        key == str_criteria(new.criteria)
        job_id == new.current_job_id
    IN  /\ Len(a.conversation_history) < MaxHistory
        /\ agent' = new
        /\ call' = [op |-> "process_user_input", client |-> client, nth |-> call.nth + 1]
        /\ IF hashed
           THEN /\ key \in DOMAIN str_hash => h = str_hash[key]
                /\ str_hash' = (key :> h) @@ str_hash
                /\ started' = started \cup {job_id}
                /\ collided' = IF job_id \in started THEN collided \cup {job_id} ELSE collided
           ELSE /\ h = CHOOSE x \in HashOutcomes : TRUE
                /\ UNCHANGED <<started, collided, str_hash>>
        /\ UNCHANGED pipeline_vars

\* POST /slr/reset by a client: get_agent().reset_session()
Reset(client) ==
    /\ agent' = reset_session(get_agent(client))
    /\ call' = [op |-> "reset_session", client |-> client, nth |-> 0]
    /\ UNCHANGED <<started, collided, str_hash>>
    /\ UNCHANGED pipeline_vars

AgentNext ==
    \/ \E client \in Clients, user_input \in UserInputs, h \in HashOutcomes :
           Chat(client, user_input, h)
    \/ \E client \in Clients : Reset(client)

AgentSpec == Init /\ [][AgentNext]_vars

\* ------------------------------------------------------------------ properties

\* a screen_studies call has returned
Returned == ret.op = "screen_studies"

\* the decision left for input study i by the last layer that ran for it
FinalOf(i) == trail[i][Len(trail[i])].d

\* the text the rule gate matches keywords against, as the properties state it
GateText(study) ==
    lower(IF study.title = None THEN "" ELSE study.title) \o " "
        \o lower(IF study.abstract = None THEN "" ELSE study.abstract)

HasDiseaseKeyword(study) ==
    \E kw \in {"t2d", "t2dm", "type 2 diabetes", "niddm", "diabetes mellitus type 2",
               "pcos", "polycystic ovary syndrome"} : Contains(kw, GateText(study))

HasTrialKeyword(study) ==
    \E kw \in {"rct", "randomized controlled trial", "randomized",
               "clinical trial", "trial phase"} : Contains(kw, GateText(study))

\* C1: the decision sequence returned by screen_studies has the length of the
\* input and its i-th decision carries the pmid of the i-th input study.
C1_OneDecisionPerStudyInOrder ==
    Returned =>
        /\ Len(ret.decisions) = Len(studies)
        /\ \A i \in 1..Len(studies) : ret.decisions[i].pmid = studies[i].pmid

\* C2: the returned metrics count, among the input studies, those whose final
\* decision is INCLUDE (total_included) and those whose final decision is
\* EXCLUDE (total_excluded).
C2_CountsMatchFinalDecisions ==
    Returned =>
        /\ ret.metrics.total_included =
               Cardinality({i \in 1..Len(studies) : FinalOf(i).decision = "INCLUDE"})
        /\ ret.metrics.total_excluded =
               Cardinality({i \in 1..Len(studies) : FinalOf(i).decision = "EXCLUDE"})

\* C3: for a study the rule gate excludes, no later layer (ml, bert) runs,
\* whatever plugins are attached.
C3_ShortCircuit ==
    \A i \in 1..Len(trail) :
        trail[i][1].d.decision = "EXCLUDE" =>
            {k \in 1..Len(trail[i]) : trail[i][k].layer \in {"ml", "bert"}} = {}

\* C3 witness: a pass with both plugins attached has returned and held a study
\* that the rule gate excluded.
C3_Witness ==
    /\ Returned
    /\ Truthy(ml_model) /\ Truthy(bert_model)
    /\ \E i \in 1..Len(trail) :
           trail[i][1].layer = "rules" /\ trail[i][1].d.decision = "EXCLUDE"

\* C4: once a study's decision is EXCLUDE after a layer, no later layer of the
\* pass makes it INCLUDE, the semantic layer does not run after an ML EXCLUDE,
\* no INCLUDE is stored for it, and the ML layer maps EXCLUDE to EXCLUDE.
C4_ExclusionTerminal ==
    /\ \A i \in 1..Len(trail) : \A j \in 1..Len(trail[i]) :
           trail[i][j].d.decision = "EXCLUDE" =>
               /\ \A k \in (j + 1)..Len(trail[i]) :
                      /\ trail[i][k].d.decision = "EXCLUDE"
                      /\ ~(trail[i][j].layer = "ml" /\ trail[i][k].layer = "bert")
               /\ \A k \in 1..Len(decisions) :
                      decisions[k].pmid = studies[i].pmid => decisions[k].decision # "INCLUDE"
    /\ (ret.op = "screen_ml" /\ ret.current_decision.decision = "EXCLUDE")
           => ret.value.decision = "EXCLUDE"

\* C4 witness: the ML layer has been run on a decision that was EXCLUDE.
C4_Witness ==
    /\ ret.op = "screen_ml"
    /\ ret.current_decision.decision = "EXCLUDE"
    /\ ret.value.layer = "rules"

\* C5: with every attached plugin failing on every call, the returned decisions
\* are those of the same run with no plugin attached.
C5_FailingPluginIsNoOp ==
    (/\ Returned
     /\ "failing_plugin" \in {ml_model, bert_model}
     /\ {ml_model, bert_model} \subseteq {None, "failing_plugin"})
        => ret.decisions = run_decisions(studies, criteria, None, None)

\* C6: with an ML plugin and no semantic plugin, each input study has a final
\* decision in the output: INCLUDE, layer ml, confidence 0.92 when it passes
\* the rule gate, its untouched rule-gate decision when the gate excludes it.
C6_MlOnlyScenario ==
    (Returned /\ Truthy(ml_model) /\ ~Truthy(bert_model)) =>
        \A i \in 1..Len(studies) :
            \E k \in 1..Len(ret.decisions) :
                /\ ret.decisions[k].pmid = studies[i].pmid
                /\ IF HasDiseaseKeyword(studies[i]) /\ HasTrialKeyword(studies[i])
                   THEN /\ ret.decisions[k].decision = "INCLUDE"
                        /\ ret.decisions[k].layer = "ml"
                        /\ ret.decisions[k].confidence = 92
                   ELSE ret.decisions[k] = screen_rules(studies[i], criteria)

\* C7: the layer field of a study's final decision names the last layer that
\* ran for the study (bert when the semantic layer ran).
C7_LayerNamesLastExecuted ==
    \A i \in 1..Len(trail) :
        LET last == trail[i][Len(trail[i])]
        IN  /\ last.d.layer = last.layer
            /\ Returned => \A k \in 1..Len(ret.decisions) :
                   ret.decisions[k].pmid = studies[i].pmid => ret.decisions[k].layer = last.layer

\* C8: a study whose text holds no disease keyword gets EXCLUDE, confidence 0.95,
\* layer rules, stage Screening from the rule gate, with or without a trial keyword.
C8_NoDiseaseExcluded ==
    (ret.op = "screen_rules" /\ ~HasDiseaseKeyword(studies[1])) =>
        /\ ret.value.decision = "EXCLUDE"
        /\ ret.value.confidence = 95
        /\ ret.value.layer = "rules"
        /\ ret.value.prisma_stage = "Screening"

\* C8 witness: the rule gate has decided a study with a trial keyword and no
\* disease keyword.
C8_Witness ==
    /\ ret.op = "screen_rules"
    /\ ~HasDiseaseKeyword(studies[1])
    /\ HasTrialKeyword(studies[1])

\* C9: a study whose text holds a disease keyword and no trial keyword gets
\* EXCLUDE, confidence 0.92, layer rules, stage Screening from the rule gate.
C9_NoTrialExcluded ==
    (ret.op = "screen_rules" /\ HasDiseaseKeyword(studies[1]) /\ ~HasTrialKeyword(studies[1])) =>
        /\ ret.value.decision = "EXCLUDE"
        /\ ret.value.confidence = 92
        /\ ret.value.layer = "rules"
        /\ ret.value.prisma_stage = "Screening"

\* C9 witness: the rule gate has decided a study with a disease keyword and no
\* trial keyword.
C9_Witness ==
    /\ ret.op = "screen_rules"
    /\ HasDiseaseKeyword(studies[1])
    /\ ~HasTrialKeyword(studies[1])

\* C10: the rule gate returns INCLUDE exactly for the studies whose text holds
\* a disease keyword and a trial keyword, with confidence 0.90, layer rules,
\* stage Inclusion.
C10_BothIncluded ==
    ret.op = "screen_rules" =>
        /\ (HasDiseaseKeyword(studies[1]) /\ HasTrialKeyword(studies[1]))
               <=> ret.value.decision = "INCLUDE"
        /\ ret.value.decision = "INCLUDE" =>
               /\ ret.value.confidence = 90
               /\ ret.value.layer = "rules"
               /\ ret.value.prisma_stage = "Inclusion"

\* C10 witness: the rule gate has decided a study whose keywords are found only
\* in its abstract, the title being absent.
C10_Witness ==
    /\ ret.op = "screen_rules"
    /\ studies[1].title = None
    /\ HasDiseaseKeyword(studies[1]) /\ HasTrialKeyword(studies[1])
    /\ ret.value.decision = "INCLUDE"

\* the keywords of the taxonomy group a criteria value names
GroupKeywords(disease) ==
    CASE disease = "type 2 diabetes" ->
             {"t2d", "t2dm", "type 2 diabetes", "niddm", "diabetes mellitus type 2"}
      [] disease = "pcos" -> {"pcos", "polycystic ovary syndrome"}
      [] OTHER -> {}

\* C11: when criteria.disease names a taxonomy group, the disease gate passes
\* only if a keyword of that group occurs in the text: a study holding no
\* keyword of the named group is excluded by the disease gate (0.95).
C11_DiseaseGateFollowsCriteria ==
    (/\ ret.op = "screen_rules"
     /\ criteria.disease # None
     /\ ~\E kw \in GroupKeywords(criteria.disease) : Contains(kw, GateText(studies[1])))
        => /\ ret.value.decision = "EXCLUDE"
           /\ ret.value.confidence = 95

\* a rate lies in [0, 1]
InUnit(r) == r.den > 0 /\ 0 <= r.num /\ r.num <= r.den

\* the rate r is the fraction num / den
IsFraction(r, num, den) == r.den # 0 /\ r.num * den = num * r.den

RECURSIVE ConfidenceTotal(_, _)
\* the sum of the confidences of the first k decisions of ds, in hundredths
ConfidenceTotal(ds, k) == IF k = 0 THEN 0 ELSE ConfidenceTotal(ds, k - 1) + ds[k].confidence

\* C12: every metrics value returned satisfies
\* total_included + total_excluded = total_screened.
C12_TotalsAddUp ==
    Returned =>
        ret.metrics.total_included + ret.metrics.total_excluded = ret.metrics.total_screened

\* C12 witness: a pass that stored two decisions has returned its metrics.
C12_Witness ==
    Returned /\ Len(ret.decisions) = 2 /\ ret.metrics.total_screened = 2

\* C13: screen_studies on an empty study list returns no decision and metrics
\* whose eight counts are 0 and whose four rates are 0.0, each rate well defined.
C13_EmptyBatchZeroMetrics ==
    (Returned /\ Len(studies) = 0) =>
        /\ ret.decisions = <<>>
        /\ \A f \in {"total_retrieved", "total_screened", "total_included", "total_excluded",
                     "true_positives", "false_positives", "true_negatives", "false_negatives"} :
               ret.metrics[f] = 0
        /\ \A f \in {"precision", "recall", "f1_score", "accuracy"} :
               ret.metrics[f].den # 0 /\ ret.metrics[f].num = 0

\* C13 witness: a pass over the empty batch has returned.
C13_Witness ==
    Returned /\ studies = <<>> /\ ret.metrics.total_screened = 0

\* C14: in every returned metrics value the four rates lie in [0, 1] and the
\* eight counts are >= 0.
C14_RatesInUnitCountsNonNegative ==
    Returned =>
        /\ \A f \in {"precision", "recall", "f1_score", "accuracy"} : InUnit(ret.metrics[f])
        /\ \A f \in {"total_retrieved", "total_screened", "total_included", "total_excluded",
                     "true_positives", "false_positives", "true_negatives", "false_negatives"} :
               ret.metrics[f] >= 0

\* C14 witness: a pass with the ML layer attached has returned metrics over two
\* decisions of confidence 0.92.
C14_Witness ==
    /\ Returned
    /\ Truthy(ml_model)
    /\ Len(ret.decisions) = 2
    /\ \A k \in 1..2 : ret.decisions[k].confidence = 92

\* C15: over a non-empty decision set, precision is the average confidence of
\* the decisions and recall is min(0.97, average confidence + 0.05).
C15_EstimatedPrecisionRecall ==
    (Returned /\ Len(ret.decisions) > 0) =>
        LET n == Len(ret.decisions)
            s == ConfidenceTotal(ret.decisions, n)
        IN  /\ IsFraction(ret.metrics.precision, s, 100 * n)
            /\ IF s + 5 * n <= 97 * n
               THEN IsFraction(ret.metrics.recall, s + 5 * n, 100 * n)
               ELSE IsFraction(ret.metrics.recall, 97, 100)

\* C15 witness: metrics have been returned over two rule-gate decisions
\* (average confidence 0.90, recall 0.95).
C15_Witness ==
    /\ Returned
    /\ Len(ret.decisions) = 2
    /\ \A k \in 1..2 : ret.decisions[k].confidence = 90
    /\ IsFraction(ret.metrics.recall, 95, 100)

\* C16: a returned metrics value carries, besides its eight counts and four
\* rates, a field that marks the rates as estimated.
C16_MetricsCarryEstimateMarker ==
    Returned =>
        DOMAIN ret.metrics \ {"total_retrieved", "total_screened", "total_included",
                              "total_excluded", "precision", "recall", "f1_score", "accuracy",
                              "true_positives", "false_positives", "true_negatives",
                              "false_negatives"} # {}

C18_ExplainAbsentIsNotFound ==
    (/\ ret.op = "explain_decision"
     /\ ~\E k \in 1..Len(decisions) : decisions[k].pmid = ret.study_id)
        => DOMAIN ret.value \cap {"decision", "layer", "reasoning", "confidence"} = {}

\* the text fields of decision d are those of the study, an absent one read as ""
TextFieldsNormalized(d, study) ==
    /\ d.title = (IF study.title = None THEN "" ELSE study.title)
    /\ d.abstract = (IF study.abstract = None THEN "" ELSE study.abstract)

\* C19: a study with a null title or abstract is screened like any other, the
\* studies after it too, and the text fields of every decision made for it are
\* empty strings, not null.
C19_NullTextBecomesEmpty ==
    /\ Len(trail) > 0 => Len(trail) = Len(studies)
    /\ \A i \in 1..Len(trail) : \A j \in 1..Len(trail[i]) :
           TextFieldsNormalized(trail[i][j].d, studies[i])
    /\ ret.op = "screen_rules" => TextFieldsNormalized(ret.value, studies[1])

\* C20: what a pass returns and leaves in self.decisions is what the loop
\* yields from that call's studies, criteria and plugins alone, and the
\* metrics are computed from exactly those decisions, whatever earlier calls
\* on the instance stored.
C20_RecomputedFromScratch ==
    Returned =>
        LET fresh == run_decisions(studies, criteria, ml_model, bert_model)
        IN  /\ ret.decisions = fresh
            /\ decisions = fresh
            /\ ret.metrics = compute_metrics(fresh)

\* C20 witness: a second pass on the instance has returned decisions.
C20_Witness ==
    /\ Returned
    /\ passes >= 2
    /\ Len(ret.decisions) = 1

\* Greatest common divisor and a rate in lowest terms.
RECURSIVE Gcd(_, _)
Gcd(a, b) == IF b = 0 THEN a ELSE Gcd(b, a % b)

Lowest(r) ==
    LET g == Gcd(r.num, r.den)
    IN  IF g = 0 THEN r ELSE Rat(r.num \div g, r.den \div g)

C21_JobIdsUnique == collided = {}

\* C22: sessions share no mutable state: a request made by one client leaves
\* the state, criteria, job id and history every other client observes unchanged.
C22_SessionsIsolated ==
    [][\A c \in Clients : (c # call'.client) => (get_agent(c)' = get_agent(c))]_vars

\* the message the last request returned
LastMessage == agent.conversation_history[Len(agent.conversation_history)]

\* C23: the state is EXECUTING exactly when current_job_id is set; in
\* EXECUTING the disease and the study type are both set; the first user
\* input after construction or reset never starts a job.
C23_ExecutingIffJobStarted ==
    /\ agent.state = "executing" <=> agent.current_job_id # None
    /\ agent.state = "executing" =>
           (agent.criteria.disease # None /\ agent.criteria.study_type # None)
    /\ (call.op = "process_user_input" /\ call.nth = 1) =>
           (agent.state # "executing" /\ agent.current_job_id = None)

\* C23 witness: a job is running, started by the second input of its session.
C23_Witness ==
    /\ agent.state = "executing"
    /\ agent.current_job_id # None
    /\ call.op = "process_user_input"
    /\ call.nth = 2

\* C24: in EXECUTING a process_user_input call leaves state, criteria and
\* current_job_id unchanged and appends exactly one message to the history;
\* only reset_session leaves EXECUTING.
C24_ExecutingIsFrozen ==
    [][(agent.state = "executing") =>
          (/\ (call'.op = "process_user_input") =>
                  (/\ agent'.state = agent.state
                   /\ agent'.criteria = agent.criteria
                   /\ agent'.current_job_id = agent.current_job_id
                   /\ Len(agent'.conversation_history) = Len(agent.conversation_history) + 1
                   /\ SubSeq(agent'.conversation_history, 1, Len(agent.conversation_history))
                          = agent.conversation_history)
           /\ (agent'.state # "executing") => (call'.op = "reset_session"))]_vars

\* C24 witness: a running job has answered an input (its last message is not
\* the one that started the job).
C24_Witness ==
    /\ agent.state = "executing"
    /\ call.op = "process_user_input"
    /\ LastMessage.action = None
    /\ LastMessage.job_id = agent.current_job_id

\* C25: the state is always IDLE, CRITERIA_INTAKE or EXECUTING; any input in
\* IDLE moves to CRITERIA_INTAKE; EXECUTING is entered only from CRITERIA_INTAKE.
C25_ThreeStatesOnly ==
    /\ [](agent.state \in ConversationState \ {"validating", "completed", "error"})
    /\ [][/\ (agent.state = "idle" /\ call'.op = "process_user_input") =>
                 (agent'.state = "criteria_intake")
          /\ (agent.state # "executing" /\ agent'.state = "executing") =>
                 (agent.state = "criteria_intake")]_vars

\* C25 witness: EXECUTING has just been entered by the input that started the job.
C25_Witness ==
    /\ agent.state = "executing"
    /\ call.op = "process_user_input"
    /\ LastMessage.action = "start_job"

\* C26: after reset_session the state is IDLE, the criteria are the
\* defaults, current_job_id is unset and the history holds exactly the
\* reset notice, whose job_id is unset.
C26_ResetYieldsFreshSession ==
    call.op = "reset_session" =>
        /\ agent.state = "idle"
        /\ agent.criteria.disease = None
        /\ agent.criteria.study_type = None
        /\ agent.criteria = SLRCriteria
        /\ agent.current_job_id = None
        /\ Len(agent.conversation_history) = 1
        /\ agent.conversation_history[1].role = "assistant"
        /\ agent.conversation_history[1].content
               = "Session reset. Start a new SLR job with 'start'"
        /\ agent.conversation_history[1].job_id = None

\* C26 witness: a session that had started a job has been reset.
C26_Witness ==
    /\ call.op = "reset_session"
    /\ started # {}
    /\ Len(agent.conversation_history) = 1

====
